---------------------------- MODULE Spec2Model ----------------------------
(***************************************************************************)
(* Model of script.py (GutenbergToStandardEbooks): the markdown loader,    *)
(* the HTML chapter segmenter, the XHTML emitter and the manifest updater. *)
(*                                                                         *)
(* Text is modelled as a sequence of characters (one-character strings);   *)
(* markup fragments as sequences of tokens (a tag, an entity or one        *)
(* character).  The stages are checked under separate specifications that  *)
(* share the variables below:                                              *)
(*   SpecMd    load_markdown on every bounded markdown text                *)
(*   SpecSeg   identify_chapters on every bounded document tree            *)
(*   SpecEmit  generate_chapter_files on one chapter, rich titles/content  *)
(*   SpecProj  repeated conversion runs against one project directory,     *)
(*             from the scaffold to prepare, build and lint                *)
(***************************************************************************)
EXTENDS Integers, Sequences, FiniteSets, TLC

VARIABLES
    pc,                \* position of convert(): which stage runs next
    ret,               \* what the last stage returned ("True", "False", "None", "raised", "-")
    diag,              \* the last diagnostic the stage printed ("" when none)
    markdown_content,  \* the text read from self.markdown_file
    soup,              \* self.soup, the parsed and sanitized HTML tree
    book_title,        \* self.book_title
    chapters,          \* self.chapters
    files,             \* <project>/src/epub/text/: index i |-> chapter-i.xhtml
    written,           \* file indices written by the last generate_chapter_files, in order
    toc,               \* <project>/src/epub/toc.xhtml
    opf,               \* <project>/src/epub/content.opf
    project_dir,       \* self.project_dir: "None" or "dir", the one project directory
    invoked            \* the se subcommands run_se_commands started in this run, with exit status

vars == <<pc, ret, diag, markdown_content, soup, book_title, chapters, files, written, toc, opf,
          project_dir, invoked>>

---------------------------------------------------------------------------
(* Bounds *)

MaxMd == 6          \* longest markdown text
MaxNodes == 3       \* most top-level nodes of an HTML body
MaxContent == 3     \* most tokens of a chapter content fragment (SpecEmit)
MaxChapters == 2    \* longest chapter sequence of a run (SpecProj)

---------------------------------------------------------------------------
(* Characters and strings *)

Whitespace == {" ", "\n", "\t"}

RECURSIVE LStrip(_)
LStrip(s) == IF s # <<>> /\ Head(s) \in Whitespace THEN LStrip(Tail(s)) ELSE s

RECURSIVE RStrip(_)
RStrip(s) ==
    IF s # <<>> /\ s[Len(s)] \in Whitespace THEN RStrip(SubSeq(s, 1, Len(s) - 1)) ELSE s

\* str.strip()
Strip(s) == RStrip(LStrip(s))

LowerPairs ==
    { <<"A", "a">>, <<"B", "b">>, <<"C", "c">>, <<"D", "d">>, <<"E", "e">>,
      <<"H", "h">>, <<"I", "i">>, <<"J", "j">>, <<"L", "l">>, <<"M", "m">>,
      <<"O", "o">>, <<"P", "p">>, <<"R", "r">>, <<"T", "t">>, <<"V", "v">>,
      <<"X", "x">>, <<"Y", "y">> }

LowerChar(c) ==
    IF \E p \in LowerPairs : p[1] = c THEN (CHOOSE p \in LowerPairs : p[1] = c)[2] ELSE c

UpperChar(c) ==
    IF \E p \in LowerPairs : p[2] = c THEN (CHOOSE p \in LowerPairs : p[2] = c)[1] ELSE c

\* str.lower()
Lower(s) == [k \in 1..Len(s) |-> LowerChar(s[k])]

Upper(s) == [k \in 1..Len(s) |-> UpperChar(s[k])]

RECURSIVE Flatten(_)
Flatten(ss) == IF ss = <<>> THEN <<>> ELSE Head(ss) \o Flatten(Tail(ss))

\* All sequences over S of length at most n
SeqsUpTo(S, n) == UNION { [1..k -> S] : k \in 0..n }

DigitChar(i) == CASE i = 1 -> "1" [] i = 2 -> "2" [] i = 3 -> "3" [] i = 4 -> "4"
                  [] i = 5 -> "5" [] i = 6 -> "6" [] i = 7 -> "7" [] i = 8 -> "8"
                  [] i = 9 -> "9" [] OTHER -> "0"

sChapter == <<"C", "h", "a", "p", "t", "e", "r">>

\* f"Chapter {i}"
ChapterN(i) == sChapter \o <<" ", DigitChar(i)>>

---------------------------------------------------------------------------
(* BeautifulSoup(f"<div>{content}</div>", 'html.parser') followed by       *)
(* ''.join(str(tag) for tag in soup.div.contents): the fragment is parsed  *)
(* leniently and serialized again.  An end tag with no open element is     *)
(* dropped, an end tag closes every element opened after its start tag,    *)
(* elements still open at the end are closed, and a bare ampersand is      *)
(* written as &amp;.  Every other character is kept.                       *)

OpenTags == {"<p>", "<i>"}
CloseOf(t) == IF t = "<p>" THEN "</p>" ELSE "</i>"
CloseTags == {CloseOf(t) : t \in OpenTags}
OpenOf(c) == CHOOSE t \in OpenTags : CloseOf(t) = c

\* stack holds the open elements, innermost first
RECURSIVE CloseAll(_)
CloseAll(stack) == IF stack = <<>> THEN <<>> ELSE <<CloseOf(Head(stack))>> \o CloseAll(Tail(stack))

InStack(stack, t) == \E k \in 1..Len(stack) : stack[k] = t

FirstIn(stack, t) == CHOOSE k \in 1..Len(stack) : stack[k] = t /\ \A j \in 1..(k - 1) : stack[j] # t

RECURSIVE SoupRun(_, _)
SoupRun(toks, stack) ==
    IF toks = <<>> THEN CloseAll(stack)
    ELSE LET t == Head(toks) rest == Tail(toks) IN
         IF t \in OpenTags THEN <<t>> \o SoupRun(rest, <<t>> \o stack)
         ELSE IF t \in CloseTags THEN
              IF InStack(stack, OpenOf(t))
              THEN LET k == FirstIn(stack, OpenOf(t)) IN
                   CloseAll(SubSeq(stack, 1, k)) \o SoupRun(rest, SubSeq(stack, k + 1, Len(stack)))
              ELSE SoupRun(rest, stack)
         ELSE IF t = "&" THEN <<"&amp;">> \o SoupRun(rest, stack)
         ELSE <<t>> \o SoupRun(rest, stack)

Soupify(toks) == SoupRun(toks, <<>>)

---------------------------------------------------------------------------
(* Values of the variables a specification does not use *)

NoSoup == [hasBody |-> FALSE, body |-> <<>>]
NoToc == [parsable |-> TRUE, nav |-> TRUE, entries |-> <<>>]
NoOpf == [exists |-> TRUE, parsable |-> TRUE, hasManifest |-> TRUE, hasSpine |-> TRUE,
          language |-> "", manifest |-> <<>>, spine |-> <<>>]

---------------------------------------------------------------------------
(* load_markdown *)

MdAlphabet == {"#", " ", "\n", "a", "&"}

HashHashAt(s, i) == i + 1 <= Len(s) /\ s[i] = "#" /\ s[i + 1] = "#"

\* where  ##\s+  can start: two hashes followed by at least one whitespace
HeadAt(s, i) == HashHashAt(s, i) /\ i + 2 <= Len(s) /\ s[i + 2] \in Whitespace

FirstHead(s, p) ==
    IF \E i \in p..Len(s) : HeadAt(s, i)
    THEN CHOOSE i \in p..Len(s) : HeadAt(s, i) /\ \A j \in p..(i - 1) : ~HeadAt(s, j)
    ELSE 0

\* end of the greedy \s+ that starts at j
SkipWs(s, j) ==
    IF \E i \in j..Len(s) : s[i] \notin Whitespace
    THEN CHOOSE i \in j..Len(s) : s[i] \notin Whitespace /\ \A k \in j..(i - 1) : s[k] \in Whitespace
    ELSE Len(s) + 1

\* where the lazy (.*?) stops: the lookahead (?=##|\Z)
NextHashHash(s, j) ==
    IF \E i \in j..Len(s) : HashHashAt(s, i)
    THEN CHOOSE i \in j..Len(s) : HashHashAt(s, i) /\ \A k \in j..(i - 1) : ~HashHashAt(s, k)
    ELSE Len(s) + 1

\* re.compile(r'##\s+(.*?)(?=##|\Z)', re.DOTALL).findall(s), scanning from p
RECURSIVE FindAllFrom(_, _)
FindAllFrom(s, p) ==
    LET i == FirstHead(s, p) IN
    IF i = 0 THEN <<>>
    ELSE LET j == SkipWs(s, i + 2)
             e == NextHashHash(s, j)
         IN <<SubSeq(s, j, e - 1)>> \o FindAllFrom(s, e)

chapter_matches(s) == FindAllFrom(s, 1)

HasNewline(s) == \E k \in 1..Len(s) : s[k] = "\n"

FirstNewline(s) == CHOOSE k \in 1..Len(s) : s[k] = "\n" /\ \A j \in 1..(k - 1) : s[j] # "\n"

\* chapter_text.strip().split('\n', 1)
SplitLine(s) ==
    IF HasNewline(s)
    THEN <<SubSeq(s, 1, FirstNewline(s) - 1), SubSeq(s, FirstNewline(s) + 1, Len(s))>>
    ELSE <<s>>

_markdown_to_html(markdown_text) == Soupify(markdown_text)

MdChapter(chapter_text) ==
    LET lines == SplitLine(Strip(chapter_text))
        chapter_content == IF Len(lines) > 1 THEN Strip(lines[2]) ELSE <<>>
    IN [title |-> Strip(lines[1]), content |-> _markdown_to_html(chapter_content)]

MdChapters(s) == [k \in 1..Len(chapter_matches(s)) |-> MdChapter(chapter_matches(s)[k])]

\* The file is read, or open() raises and the handler returns False.
LoadMarkdown ==
    /\ pc = "load_markdown"
    /\ \E readable \in BOOLEAN :
         IF ~readable
         THEN /\ ret' = "False"
              /\ diag' = "Error loading markdown"
              /\ chapters' = chapters
              /\ pc' = "no_content"
         ELSE IF chapter_matches(markdown_content) = <<>>
         THEN /\ ret' = "False"
              /\ diag' = "No chapters found in the markdown file."
              /\ chapters' = chapters
              /\ pc' = "no_content"
         ELSE /\ ret' = "True"
              /\ diag' = ""
              /\ chapters' = MdChapters(markdown_content)
              /\ pc' = "create_project"
    /\ UNCHANGED <<markdown_content, soup, book_title, files, written, toc, opf,
                   project_dir, invoked>>

InitMd ==
    /\ pc = "load_markdown"
    /\ ret = "-"
    /\ diag = ""
    /\ markdown_content \in SeqsUpTo(MdAlphabet, MaxMd)
    /\ soup = NoSoup
    /\ book_title = <<>>
    /\ chapters = <<>>
    /\ files = <<>>
    /\ written = <<>>
    /\ toc = NoToc
    /\ opf = NoOpf
    /\ project_dir = "None"
    /\ invoked = <<>>

NextMd == LoadMarkdown

SpecMd == InitMd /\ [][NextMd]_vars

---------------------------------------------------------------------------
(* The HTML tree.  soup.body holds the top-level nodes; a node is a text   *)
(* node (name "", bs4's name None) or an element with a class, an id, its  *)
(* own text and child nodes.  A node is identified by its path: <<i>> is   *)
(* the i-th top-level node and <<i, j>> its j-th child.                    *)

Leaf(name, cls, id, text) == [name |-> name, cls |-> cls, id |-> id, text |-> text, kids |-> <<>>]

H1B == Leaf("h1", "", "", <<"B">>)
H2A == Leaf("h2", "", "", <<"A">>)
H2B == Leaf("h2", "", "", <<" ", "b">>)
Px == Leaf("p", "", "", <<"x">>)
Txt == Leaf("", "", "", <<"t">>)
DivCh == Leaf("div", "chapter", "chapter-1", <<"C">>)

Leaves == {H1B, H2A, H2B, Px, Txt, DivCh}

Wrapper(kids) == [name |-> "div", cls |-> "", id |-> "", text |-> <<>>, kids |-> kids]

Wrappers == {Wrapper(k) : k \in {<<H2A>>, <<H2A, Px>>, <<Px, H2A>>, <<H2A, H2B>>}}

Nodes == Leaves \cup Wrappers

Soups == [hasBody : BOOLEAN, body : SeqsUpTo(Nodes, MaxNodes)]

BookTitles == {<<"B">>, <<"Z">>}

NodeAt(doc, path) ==
    IF Len(path) = 1 THEN doc.body[path[1]] ELSE doc.body[path[1]].kids[path[2]]

\* Tag.get_text(): the text of the node and of its descendants
GetText(n) == n.text \o Flatten([j \in 1..Len(n.kids) |-> n.kids[j].text])

\* every node in document order (depth first)
AllPaths(doc) ==
    Flatten([i \in 1..Len(doc.body) |->
               <<<<i>>>> \o [j \in 1..Len(doc.body[i].kids) |-> <<i, j>>]])

\* the attribute value contains the substring "chapter"
ContainsChapter(v) == v \in {"chapter", "chapter-1"}

chapter_patterns ==
    << "h1", "h2", "h3",
       "div[class*=chapter]", "div[id*=chapter]",
       "span[class*=chapter]", "span[id*=chapter]",
       ".chapter", "#chapter",
       "##" >>

\* whether element n matches the CSS selector pat.  "##" is no CSS selector:
\* a parser that accepts it reads it as "the element whose id is #".
Matches(pat, n) ==
    /\ n.name # ""
    /\ CASE pat \in {"h1", "h2", "h3"} -> n.name = pat
         [] pat = "div[class*=chapter]" -> n.name = "div" /\ ContainsChapter(n.cls)
         [] pat = "div[id*=chapter]" -> n.name = "div" /\ ContainsChapter(n.id)
         [] pat = "span[class*=chapter]" -> n.name = "span" /\ ContainsChapter(n.cls)
         [] pat = "span[id*=chapter]" -> n.name = "span" /\ ContainsChapter(n.id)
         [] pat = ".chapter" -> n.cls = "chapter"
         [] pat = "#chapter" -> n.id = "chapter"
         [] pat = "##" -> n.id = "#"
         [] OTHER -> FALSE

\* self.soup.select(pattern): the matching elements in document order
Select(doc, pat) == SelectSeq(AllPaths(doc), LAMBDA p : Matches(pat, NodeAt(doc, p)))

\* for pattern in chapter_patterns: potential_chapters.extend(self.soup.select(pattern))
Collect(doc) == Flatten([k \in 1..Len(chapter_patterns) |-> Select(doc, chapter_patterns[k])])

\* potential_chapters.sort(key=lambda x: str(x).find(str(x))): a string is found
\* in itself at offset 0, so every key is 0 and the stable sort keeps the order.
SortKey(doc, p) == 0

RECURSIVE InsertByKey(_, _, _)
InsertByKey(doc, sorted, p) ==
    IF sorted = <<>> THEN <<p>>
    ELSE IF SortKey(doc, p) < SortKey(doc, Head(sorted)) THEN <<p>> \o sorted
    ELSE <<Head(sorted)>> \o InsertByKey(doc, Tail(sorted), p)

RECURSIVE StableSort(_, _)
StableSort(doc, ps) ==
    IF ps = <<>> THEN <<>>
    ELSE InsertByKey(doc, StableSort(doc, SubSeq(ps, 1, Len(ps) - 1)), ps[Len(ps)])

potential_chapters(doc) == StableSort(doc, Collect(doc))

\* the nodes after path among the children of its parent (the next_sibling chain)
SiblingsAfter(doc, path) ==
    IF Len(path) = 1
    THEN [k \in 1..(Len(doc.body) - path[1]) |-> <<path[1] + k>>]
    ELSE [k \in 1..(Len(doc.body[path[1]].kids) - path[2]) |-> <<path[1], path[2] + k>>]

Item(kind, path) == [kind |-> kind, path |-> path]

\* The while loop of lines 202-208: follow next_sibling from the marker until
\* the end or, unless the marker is the last candidate, until a sibling that
\* equals the next candidate (bs4 compares tags by name, attributes and
\* contents); keep the siblings that have a name.
Walk(doc, pots, i) ==
    LET sibs == SiblingsAfter(doc, pots[i])
        Stops(k) == i # Len(pots) /\ NodeAt(doc, sibs[k]) = NodeAt(doc, pots[i + 1])
        stop == IF \E k \in 1..Len(sibs) : Stops(k)
                THEN CHOOSE k \in 1..Len(sibs) : Stops(k) /\ \A j \in 1..(k - 1) : ~Stops(j)
                ELSE Len(sibs) + 1
        walked == SubSeq(sibs, 1, stop - 1)
        named == SelectSeq(walked, LAMBDA p : NodeAt(doc, p).name # "")
    IN [k \in 1..Len(named) |-> Item("node", named[k])]

Flush(acc, current_title, current_content) ==
    IF current_content # <<>>
    THEN Append(acc, [title |-> current_title, content |-> current_content])
    ELSE acc

\* The for loop of lines 191-208 from candidate i on, and lines 210-215 after it
RECURSIVE SegLoop(_, _, _, _, _, _)
SegLoop(doc, pots, i, current_title, current_content, acc) ==
    IF i > Len(pots) THEN Flush(acc, current_title, current_content)
    ELSE SegLoop(doc, pots, i + 1,
                 Strip(GetText(NodeAt(doc, pots[i]))),
                 Walk(doc, pots, i),
                 Flush(acc, current_title, current_content))

sIntroduction == <<"I", "n", "t", "r", "o", "d", "u", "c", "t", "i", "o", "n">>
sTitle == <<"t", "i", "t", "l", "e">>
sTitlePage == <<"t", "i", "t", "l", "e", " ", "p", "a", "g", "e">>

\* line 187
IsPreface(doc, p, title) ==
    Lower(Strip(GetText(NodeAt(doc, p)))) \in {sTitlePage, sTitle, Lower(title)}

\* str(self.soup.body): the body element, or "None" when the tree has none
StrBody(doc) == IF doc.hasBody THEN <<Item("body", <<>>)>> ELSE <<Item("None", <<>>)>>

\* the candidates the for loop of line 191 walks, in the order it walks them:
\* the sorted list, without its first element when that one is the preface
\* (lines 187-189)
walked_chapters(doc, title) ==
    LET pots == potential_chapters(doc) IN
    IF pots # <<>> /\ IsPreface(doc, pots[1], title) THEN Tail(pots) ELSE pots

Segment(doc, title, acc) ==
    LET pots == potential_chapters(doc) IN
    IF pots = <<>>
    THEN <<[title |-> ChapterN(1), content |-> StrBody(doc)]>>
    ELSE IF IsPreface(doc, pots[1], title)
         THEN SegLoop(doc, walked_chapters(doc, title), 1,
                      Strip(GetText(NodeAt(doc, pots[1]))), <<>>, acc)
         ELSE SegLoop(doc, walked_chapters(doc, title), 1, sIntroduction, <<>>, acc)

\* identify_chapters.  select("##") raises a selector syntax error in the CSS
\* parsers that reject it and matches nothing in the ones that accept it; the
\* handler catches nothing, so the error leaves it.
IdentifyChapters ==
    /\ pc = "identify_chapters"
    /\ IF chapters # <<>>
       THEN /\ ret' = "True"
            /\ pc' = "create_project"
            /\ UNCHANGED <<diag, chapters>>
       ELSE \E selectorRejected \in BOOLEAN :
            IF selectorRejected
            THEN /\ ret' = "raised"
                 /\ diag' = ""
                 /\ pc' = "crashed"
                 /\ UNCHANGED chapters
            ELSE /\ ret' = "None"
                 /\ diag' = IF potential_chapters(soup) = <<>>
                            THEN "WARNING: Could not automatically identify chapters."
                            ELSE "Identified chapters."
                 /\ chapters' = Segment(soup, book_title, chapters)
                 /\ pc' = "create_project"
    /\ UNCHANGED <<markdown_content, soup, book_title, files, written, toc, opf,
                   project_dir, invoked>>

InitSeg ==
    /\ pc = "identify_chapters"
    /\ ret = "-"
    /\ diag = ""
    /\ markdown_content = <<>>
    /\ soup \in Soups
    /\ book_title \in BookTitles
    /\ chapters = <<>>
    /\ files = <<>>
    /\ written = <<>>
    /\ toc = NoToc
    /\ opf = NoOpf
    /\ project_dir = "None"
    /\ invoked = <<>>

NextSeg == IdentifyChapters

SpecSeg == InitSeg /\ [][NextSeg]_vars

---------------------------------------------------------------------------
(* generate_chapter_files: one chapter.  A content fragment is a sequence  *)
(* of tokens: a start or end tag, an entity, or one character.  Characters *)
(* outside ASCII are written by code point.  "<h2>{title}</h2>" stands for *)
(* a heading element (h1..h4) whose trimmed text equals the resolved title.*)

CTRL == "U+0001"            \* a control character, not allowed in XML
NONCHAR == "U+FFFE"         \* not an XML character, and not in the class line 420 strips
HEADING == "<h2>{title}</h2>"

RomanUpper == {"I", "V", "X", "L", "C", "D", "M"}

\* re.match(r'^chapter\s+([IVXLCDM]+)$', t): the end of the whitespace run when
\* t is "chapter", whitespace, then only characters of [IVXLCDM]; 0 when no match
RomanSplit(t) ==
    IF /\ Len(t) >= Len(sChapter) + 2
       /\ SubSeq(t, 1, Len(sChapter)) = Lower(sChapter)
       /\ \E k \in (Len(sChapter) + 1)..(Len(t) - 1) :
             /\ \A j \in (Len(sChapter) + 1)..k : t[j] \in Whitespace
             /\ \A j \in (k + 1)..Len(t) : t[j] \in RomanUpper
    THEN CHOOSE k \in (Len(sChapter) + 1)..(Len(t) - 1) :
             /\ \A j \in (Len(sChapter) + 1)..k : t[j] \in Whitespace
             /\ \A j \in (k + 1)..Len(t) : t[j] \in RomanUpper
    ELSE 0

\* lines 328-334: the title is matched after title.lower(), and the numeral
\* is taken from the lowered text
ResolveTitle(raw, i) ==
    LET stripped == Strip(raw)
        title == IF stripped = <<>> THEN ChapterN(i) ELSE stripped
        k == RomanSplit(Lower(title))
    IN IF k # 0
       THEN sChapter \o <<" ">> \o SubSeq(Lower(title), k + 1, Len(title))
       ELSE title

\* lines 349-351: every heading whose trimmed text equals the title is removed
RemoveHeadings(toks) == SelectSeq(toks, LAMBDA t : t # HEADING)

\* str.replace(old, new) for a one-character old
Replace1(toks, old, new) ==
    Flatten([k \in 1..Len(toks) |-> IF toks[k] = old THEN new ELSE <<toks[k]>>])

\* str.replace(old + old, new): left to right, without overlap
RECURSIVE Replace2(_, _, _)
Replace2(toks, old, new) ==
    IF Len(toks) < 2 THEN toks
    ELSE IF toks[1] = old /\ toks[2] = old
         THEN new \o Replace2(SubSeq(toks, 3, Len(toks)), old, new)
         ELSE <<toks[1]>> \o Replace2(Tail(toks), old, new)

\* lines 362-364 as the file holds them: both quote replacements put the same
\* straight quote back, and "--" becomes the three characters U+00E2 U+20AC
\* U+201D (an em dash's UTF-8 bytes read as Windows-1252)
Typography(toks) ==
    LET q2 == Replace1(Replace1(toks, "\"", <<"\"">>), "\"", <<"\"">>)
        q1 == Replace1(Replace1(q2, "'", <<"'">>), "'", <<"'">>)
    IN Replace2(q1, "-", <<"U+00E2", "U+20AC", "U+201D">>)

\* lines 338-356 and 362-364: the fragment that goes into the template
Fragment(content, title) == Typography(RemoveHeadings(Soupify(content)))

\* etree.fromstring on the text of an element: tags nest and close, no bare
\* ampersand, no character outside the XML character ranges
RECURSIVE Balanced(_, _)
Balanced(toks, stack) ==
    IF toks = <<>> THEN stack = <<>>
    ELSE LET t == Head(toks) IN
         IF t \in OpenTags THEN Balanced(Tail(toks), <<t>> \o stack)
         ELSE IF t \in CloseTags
              THEN stack # <<>> /\ Head(stack) = OpenOf(t) /\ Balanced(Tail(toks), Tail(stack))
              ELSE Balanced(Tail(toks), stack)

XmlText(toks) ==
    /\ \A k \in 1..Len(toks) : toks[k] \notin {"&", "<", CTRL, NONCHAR}
    /\ Balanced(toks, <<>>)

\* etree.fromstring(xhtml_content): the template is well formed, so the
\* document parses when the title (formatted in twice, unescaped) and the
\* content do
Parses(doc) == XmlText(doc.title) /\ XmlText(doc.content)

\* _fix_xml_issues, lines 413-422
_fix_xml_issues(content) ==
    LET clean == Soupify(content)
        \* .replace('&', '&amp;')
        amp == [k \in 1..Len(clean) |->
                  CASE clean[k] = "&" -> "&amp;"
                    [] clean[k] = "&amp;" -> "&amp;amp;"
                    [] OTHER -> clean[k]]
        \* re.sub(r'&amp;([a-zA-Z]+);', r'&\1;', ...)
        ent == [k \in 1..Len(amp) |-> IF amp[k] = "&amp;amp;" THEN "&amp;" ELSE amp[k]]
    IN SelectSeq(ent, LAMBDA t : t # CTRL)

\* xhtml_template.format(language, title, id, content)
Xhtml(i, title, content, path) ==
    [id |-> i, title |-> title, content |-> content, path |-> path]

\* line 393: a paragraph holding the notice and the parser's message
Fallback == <<"<p>", "Chapter content unavailable due to XML errors: {e}", "</p>">>

\* lines 328-399 for chapter i: the document that is written to chapter-i.xhtml
EmitChapter(i, chapter) ==
    LET title == ResolveTitle(chapter.title, i)
        content == Fragment(chapter.content, title)
        first == Xhtml(i, title, content, "ok")
        fixed == Xhtml(i, title, _fix_xml_issues(content), "repaired")
    IN IF Parses(first) THEN first
       ELSE IF Parses(fixed) THEN fixed
       ELSE Xhtml(i, title, Fallback, "fallback")

---------------------------------------------------------------------------
(* generate_chapter_files with _update_toc, update_content_opf, and the    *)
(* stages of convert() around them                                          *)

\* EmitChapters as it would be if the second XMLSyntaxError (line 391) were
\* not caught: the loop ends at the first chapter that needs the fallback
EmitChaptersUntilFallback(chs) ==
    LET all == [i \in 1..Len(chs) |-> EmitChapter(i, chs[i])]
        bad == {i \in 1..Len(chs) : all[i].path = "fallback"}
    IN IF bad = {} THEN all
       ELSE SubSeq(all, 1, (CHOOSE i \in bad : \A j \in bad : i <= j) - 1)

\* the for loop of lines 327-407: one document per chapter, numbered from 1
EmitChapters(chs) == [i \in 1..Len(chs) |-> EmitChapter(i, chs[i])]

\* open(text_dir/chapter-{id}.xhtml, 'w').write(...): a file of that name is replaced
WriteFiles(dir, docs) ==
    LET ids == {docs[k].id : k \in 1..Len(docs)} IN
    [n \in (DOMAIN dir) \cup ids |->
        IF n \in ids
        THEN docs[CHOOSE k \in 1..Len(docs) : docs[k].id = n /\ \A j \in (k + 1)..Len(docs) : docs[j].id # n]
        ELSE dir[n]]

\* toc_xhtml.append((file_name, title)) and, in _update_toc, one li/a per entry
TocEntries(docs) == [k \in 1..Len(docs) |-> [href |-> docs[k].id, text |-> docs[k].title]]

\* generate_chapter_files.
\* _update_toc parses toc.xhtml outside any try (an unparsable file raises
\* through generate_chapter_files); when the nav element is missing it prints
\* and returns False, which line 409 drops.
GenerateChapterFiles ==
    /\ pc = "generate_chapter_files"
    /\ IF project_dir = "None" \/ chapters = <<>>
       THEN /\ ret' = "False"
            /\ diag' = "Project not initialized or chapters not identified."
            /\ pc' = "aborted"
            /\ written' = <<>>
            /\ UNCHANGED <<files, toc>>
       ELSE LET docs == EmitChapters(chapters) IN
            /\ files' = WriteFiles(files, docs)
            /\ written' = [k \in 1..Len(docs) |-> docs[k].id]
            /\ IF ~toc.parsable
               THEN /\ ret' = "raised"
                    /\ diag' = ""
                    /\ pc' = "crashed"
                    /\ toc' = toc
               ELSE IF ~toc.nav
               THEN /\ ret' = "True"
                    /\ diag' = "ERROR: Could not find TOC nav element"
                    /\ pc' = "update_content_opf"
                    /\ toc' = toc
               ELSE /\ ret' = "True"
                    /\ diag' = "Updated table of contents."
                    /\ pc' = "update_content_opf"
                    /\ toc' = [toc EXCEPT !.entries = TocEntries(docs)]
    /\ UNCHANGED <<markdown_content, soup, book_title, chapters, opf, project_dir, invoked>>

\* A manifest item; id 0 stands for an item of the scaffold that is no
\* chapter, id i > 0 for "chapter-{i}" with href "text/chapter-{i}.xhtml".
ManifestItem(i) == [id |-> i, href |-> i, media |-> "application/xhtml+xml"]

\* AddItems as it would be without the test of line 503
AddItemsUnchecked(manifest, n) == manifest \o [i \in 1..n |-> ManifestItem(i)]

\* lines 496-507: the items of chapters 1..n whose id the manifest does not hold yet
AddItems(manifest, n) ==
    LET existing_ids == {manifest[k].id : k \in 1..Len(manifest)} IN
    manifest \o SelectSeq([i \in 1..n |-> ManifestItem(i)], LAMBDA it : it.id \notin existing_ids)

\* lines 497-511: the spine references, likewise
AddItemrefs(spine, n) ==
    LET existing_idrefs == {spine[k] : k \in 1..Len(spine)} IN
    spine \o SelectSeq([i \in 1..n |-> i], LAMBDA r : r \notin existing_idrefs)

sLanguage == "en-US"

\* update_content_opf with self.subjects empty (its default)
UpdateContentOpf ==
    /\ pc = "update_content_opf"
    /\ IF ~opf.exists
       THEN /\ ret' = "False"
            /\ diag' = "OPF file not found"
            /\ pc' = "aborted"
            /\ opf' = opf
       ELSE IF ~opf.parsable
       THEN /\ ret' = "raised"
            /\ diag' = ""
            /\ pc' = "crashed"
            /\ opf' = opf
       ELSE IF ~opf.hasManifest \/ ~opf.hasSpine
       THEN /\ ret' = "False"
            /\ diag' = "Could not find manifest or spine elements in content.opf"
            /\ pc' = "aborted"
            /\ opf' = opf
       ELSE /\ ret' = "True"
            /\ diag' = "Updated content.opf metadata file."
            /\ pc' = "run_se_commands"
            /\ opf' = [opf EXCEPT !.language = sLanguage,
                                  !.manifest = AddItems(opf.manifest, Len(chapters)),
                                  !.spine = AddItemrefs(opf.spine, Len(chapters))]
    /\ UNCHANGED <<markdown_content, soup, book_title, chapters, files, written, toc,
                   project_dir, invoked>>

\* the subcommands of lines 531, 545 and 559, in the order of the code
SeCommands == <<"prepare-release", "build", "lint">>

\* process.returncode: zero, or not
ExitStatuses == {0, 1}

\* The subprocess calls as they would be if a nonzero exit status ended the
\* sequence (subprocess.run with check=True)
InvokeChecked(rcs, launched) ==
    LET all == [k \in 1..launched |-> [cmd |-> SeCommands[k], rc |-> rcs[k]]]
        Failed(k) == all[k].rc # 0
    IN IF \E k \in 1..launched : Failed(k)
       THEN SubSeq(all, 1, CHOOSE k \in 1..launched : Failed(k) /\ \A j \in 1..(k - 1) : ~Failed(j))
       ELSE all

\* The subprocess calls of lines 530-568 with check=False: the first
\* `launched` subcommands start, each whatever the earlier ones exited with
Invoke(rcs, launched) ==
    [k \in 1..launched |-> [cmd |-> SeCommands[k], rc |-> rcs[k]]]

\* run_se_commands: prepare, build and lint run in the project directory; a
\* nonzero exit status only prints a warning and the handler returns True.
\* An exception (chdir into a directory that is gone, a subcommand that
\* cannot be started) is caught at line 573 and gives False; `launched` is
\* the number of subcommands that ran before it, 3 when there was none.
RunSeCommands ==
    /\ pc = "run_se_commands"
    /\ IF project_dir = "None"
       THEN /\ ret' = "False"
            /\ diag' = "Project not initialized."
            /\ pc' = "aborted"
            /\ invoked' = invoked
       ELSE \E launched \in 0..Len(SeCommands), rcs \in [1..Len(SeCommands) -> ExitStatuses] :
            /\ invoked' = Invoke(rcs, launched)
            /\ IF launched = Len(SeCommands)
               THEN ret' = "True" /\ diag' = "Conversion completed!" /\ pc' = "done"
               ELSE /\ ret' = "False"
                    /\ diag' = "Error running Standard Ebooks command"
                    /\ pc' = "aborted"
    /\ UNCHANGED <<markdown_content, soup, book_title, chapters, files, written, toc, opf,
                   project_dir>>

\* Titles and fragments of the chapters of a run
tA == <<"A">>
tTomAndJerry == <<"T", "&", "J">>
tChapterIv == sChapter \o <<" ", "i", "v">>
tChapterIV == Lower(sChapter) \o <<" ", " ", "I", "V">>
tCHAPTERx == Upper(sChapter) \o <<" ", "x">>
tChapter4 == sChapter \o <<" ", "4">>
tChapterIvy == sChapter \o <<" ", "I", "v", "y">>
tBlank == <<" ">>

EmitTitles == {tA, tTomAndJerry, tChapterIv, tChapterIV, tCHAPTERx, tChapter4, tChapterIvy, tBlank}

ContentTokens == {"<p>", "</p>", "&", "x", "\"", "'", "-", CTRL, NONCHAR, HEADING}

ProjChapters ==
    { [title |-> tA, content |-> <<"<p>", "x">>],
      [title |-> tBlank, content |-> <<NONCHAR>>] }

\* The start of convert() up to generate_chapter_files: the loader and the
\* segmenter leave a chapter sequence (an empty one when no candidate had
\* content); then create_standard_ebooks_project either finds the project
\* directory (the one of the earlier runs: "created") or returns False, and
\* in that case the path typed at the prompt of line 596 is that directory
\* ("manual") or no directory at all ("invalid").
StartRun ==
    /\ pc \in {"start", "done", "aborted", "crashed"}
    /\ chapters' \in SeqsUpTo(ProjChapters, MaxChapters)
    /\ written' = <<>>
    /\ invoked' = <<>>
    /\ \E scaffold \in {"created", "manual", "invalid"} :
         /\ ret' = IF scaffold = "created" THEN "True" ELSE "False"
         /\ IF scaffold \in {"created", "manual"}
            THEN /\ project_dir' = "dir"
                 /\ diag' = ""
                 /\ pc' = "generate_chapter_files"
            ELSE /\ project_dir' = "None"
                 /\ diag' = "Invalid directory path. Aborting."
                 /\ pc' = "aborted"
    /\ UNCHANGED <<markdown_content, soup, book_title, files, toc, opf>>

InitEmit ==
    /\ pc = "generate_chapter_files"
    /\ ret = "-"
    /\ diag = ""
    /\ markdown_content = <<>>
    /\ soup = NoSoup
    /\ book_title = <<>>
    /\ chapters \in {<<[title |-> t, content |-> c]>> :
                        t \in EmitTitles, c \in SeqsUpTo(ContentTokens, MaxContent)}
    /\ files = <<>>
    /\ written = <<>>
    /\ toc = NoToc
    /\ opf = NoOpf
    /\ project_dir = "dir"
    /\ invoked = <<>>

NextEmit == GenerateChapterFiles

SpecEmit == InitEmit /\ [][NextEmit]_vars

\* toc.xhtml of the scaffold: with its nav element, without it, or unparsable
InitTocs ==
    { [parsable |-> TRUE, nav |-> TRUE, entries |-> <<>>],
      [parsable |-> TRUE, nav |-> FALSE, entries |-> <<>>],
      [parsable |-> FALSE, nav |-> FALSE, entries |-> <<>>] }

Ascending(S) ==
    SelectSeq([i \in 1..MaxChapters |-> i], LAMBDA i : i \in S)

\* content.opf: the scaffold's, or one that already holds some chapter items
\* (each at most once) with all, or none, of their spine references, or one
\* that is missing, unparsable or without a manifest or spine
InitOpfs ==
    UNION { { [exists |-> TRUE, parsable |-> TRUE, hasManifest |-> TRUE, hasSpine |-> TRUE,
               language |-> "",
               manifest |-> <<ManifestItem(0)>>
                            \o [k \in 1..Len(Ascending(M)) |-> ManifestItem(Ascending(M)[k])],
               spine |-> <<0>> \o Ascending(S)] : S \in {{}, M} }
            : M \in SUBSET (1..MaxChapters) }
    \cup
    { d \in [exists : BOOLEAN, parsable : BOOLEAN, hasManifest : BOOLEAN, hasSpine : BOOLEAN,
              language : {""}, manifest : {<<>>}, spine : {<<>>}] :
        ~(d.exists /\ d.parsable /\ d.hasManifest /\ d.hasSpine) }

InitProj ==
    /\ pc = "start"
    /\ ret = "-"
    /\ diag = ""
    /\ markdown_content = <<>>
    /\ soup = NoSoup
    /\ book_title = <<>>
    /\ chapters = <<>>
    /\ files = <<>>
    /\ written = <<>>
    /\ toc \in InitTocs
    /\ opf \in InitOpfs
    /\ project_dir = "None"
    /\ invoked = <<>>

NextProj == StartRun \/ GenerateChapterFiles \/ UpdateContentOpf \/ RunSeCommands

SpecProj == InitProj /\ [][NextProj]_vars

---------------------------------------------------------------------------
(* Claims about identify_chapters (SpecSeg) *)

\* identify_chapters ran to its end (no selector error left it)
Segmented == pc = "create_project" /\ ret = "None"

\* the source nodes an item of a chapter's content holds: the node and its children
ItemNodes(doc, it) ==
    CASE it.kind = "node" ->
           {it.path} \cup (IF Len(it.path) = 1
                           THEN {<<it.path[1], j>> : j \in 1..Len(doc.body[it.path[1]].kids)}
                           ELSE {})
      [] it.kind = "body" -> {AllPaths(doc)[k] : k \in 1..Len(AllPaths(doc))}
      [] OTHER -> {}

ChapterNodes(doc, ch) == UNION {ItemNodes(doc, ch.content[k]) : k \in 1..Len(ch.content)}

\* the boundary candidates, each once, in document order
Candidates(doc) ==
    SelectSeq(AllPaths(doc),
              LAMBDA p : \E k \in 1..Len(chapter_patterns) : Matches(chapter_patterns[k], NodeAt(doc, p)))

OnlySiblingHeadings(doc) ==
    /\ Candidates(doc) # <<>>
    /\ \A k \in 1..Len(Candidates(doc)) :
         /\ Len(Candidates(doc)[k]) = 1
         /\ NodeAt(doc, Candidates(doc)[k]).name \in {"h1", "h2", "h3"}

\* the element siblings strictly between heading j and heading j + 1 (or the end)
Between(doc, hs, j) ==
    LET from == hs[j][1] + 1
        to == IF j < Len(hs) THEN hs[j + 1][1] - 1 ELSE Len(doc.body)
        elems == SelectSeq([k \in 1..(to - from + 1) |-> <<from + k - 1>>],
                           LAMBDA p : NodeAt(doc, p).name # "")
    IN [k \in 1..Len(elems) |-> Item("node", elems[k])]

\* C2: when the only boundary candidates are k sibling headings and none of
\* them is a preface match, identify_chapters yields exactly k chapters in
\* heading order, chapter j titled with heading j's text and holding the
\* siblings strictly between heading j and heading j + 1.
C2_OneChapterPerHeading ==
    (/\ Segmented
     /\ OnlySiblingHeadings(soup)
     /\ \A k \in 1..Len(Candidates(soup)) : ~IsPreface(soup, Candidates(soup)[k], book_title))
    => LET hs == Candidates(soup) IN
       chapters = [j \in 1..Len(hs) |->
                     [title |-> Strip(GetText(NodeAt(soup, hs[j]))),
                      content |-> Between(soup, hs, j)]]

\* C4: with no boundary candidate at all, identify_chapters produces exactly
\* one chapter, titled "Chapter 1", whose content is the entire body and
\* nothing else (so an empty body gives empty content), and does not fail.
C4_SingleChapterFallback ==
    (pc # "identify_chapters" /\ Candidates(soup) = <<>>)
    => /\ Segmented
       /\ Len(chapters) = 1
       /\ chapters[1].title = ChapterN(1)
       /\ ChapterNodes(soup, chapters[1]) = {AllPaths(soup)[k] : k \in 1..Len(AllPaths(soup))}
       /\ \A k \in 1..Len(chapters[1].content) : chapters[1].content[k].kind # "None"

\* C10: no source node appears in the content of two different chapters.
C10_NoOverlap ==
    Segmented =>
      \A a, b \in 1..Len(chapters) :
         a # b => ChapterNodes(soup, chapters[a]) \cap ChapterNodes(soup, chapters[b]) = {}

\* the position of node p in the document (depth first)
DocIndex(doc, p) == CHOOSE k \in 1..Len(AllPaths(doc)) : AllPaths(doc)[k] = p

\* the position at which the walk first meets node p
FirstWalked(w, p) == CHOOSE k \in 1..Len(w) : w[k] = p /\ \A j \in 1..(k - 1) : w[j] # p

\* C11: the boundary candidates are walked in document order, whatever
\* selector matched each of them: of two candidates, the one that comes first
\* in the document is walked first.
C11_WalkInDocumentOrder ==
    Segmented =>
      LET w == walked_chapters(soup, book_title) IN
      \A a, b \in 1..Len(w) :
         DocIndex(soup, w[a]) < DocIndex(soup, w[b])
            => FirstWalked(w, w[a]) < FirstWalked(w, w[b])

\* whether the first candidate found is taken as the preface (line 187)
HasPreface(doc, title) ==
    potential_chapters(doc) # <<>> /\ IsPreface(doc, potential_chapters(doc)[1], title)

\* the walked candidate that comes first in the document
FirstReal(doc, title) ==
    LET w == walked_chapters(doc, title) IN
    CHOOSE p \in {w[k] : k \in 1..Len(w)} :
       \A k \in 1..Len(w) : DocIndex(doc, p) <= DocIndex(doc, w[k])

\* the elements of the body that precede the first real candidate, the
\* preface candidate itself left out
Leading(doc, title) ==
    LET first == FirstReal(doc, title)[1] IN
    SelectSeq([k \in 1..(first - 1) |-> <<k>>],
              LAMBDA p : /\ NodeAt(doc, p).name # ""
                         /\ ~(HasPreface(doc, title) /\ p = potential_chapters(doc)[1]))

\* C12: when body content precedes the first real boundary candidate, the
\* first chapter produced holds that content and is titled "Introduction",
\* or with the preface candidate's text when the first candidate is a
\* preface match.
C12_LeadingChapter ==
    (/\ Segmented
     /\ walked_chapters(soup, book_title) # <<>>
     /\ Leading(soup, book_title) # <<>>)
    => /\ chapters # <<>>
       /\ chapters[1].title =
             (IF HasPreface(soup, book_title)
              THEN Strip(GetText(NodeAt(soup, potential_chapters(soup)[1])))
              ELSE sIntroduction)
       /\ \A k \in 1..Len(Leading(soup, book_title)) :
             \E j \in 1..Len(chapters[1].content) :
                chapters[1].content[j] = Item("node", Leading(soup, book_title)[k])

---------------------------------------------------------------------------
(* Claims about load_markdown (SpecMd) *)

\* a level-2 heading marker: exactly two hashes followed by whitespace
Level2At(s, i) == HeadAt(s, i) /\ (i = 1 \/ s[i - 1] # "#")

Level2Count(s) == Cardinality({i \in 1..Len(s) : Level2At(s, i)})

\* the position of the j-th level-2 heading marker
Level2Pos(s, j) ==
    CHOOSE i \in 1..Len(s) :
       Level2At(s, i) /\ Cardinality({h \in 1..i : Level2At(s, h)}) = j

\* the text from the j-th marker's hashes to the next marker or the end of the file
Level2Text(s, j) ==
    SubSeq(s, Level2Pos(s, j) + 2,
           IF j < Level2Count(s) THEN Level2Pos(s, j + 1) - 1 ELSE Len(s))

Level2Chapter(s, j) ==
    LET body == Level2Text(s, j)
        nl == IF HasNewline(body) THEN FirstNewline(body) ELSE Len(body) + 1
    IN [title |-> Strip(SubSeq(body, 1, nl - 1)),
        content |-> _markdown_to_html(Strip(SubSeq(body, nl + 1, Len(body))))]

\* C6: a markdown text with k >= 1 level-2 heading markers yields exactly k
\* chapters in order, each titled with its heading line and holding all that
\* follows the heading line up to the next level-2 heading or the end of the
\* file; with k = 0 load_markdown returns failure and produces no chapters.
C6_OneChapterPerLevel2Heading ==
    (pc # "load_markdown" /\ diag # "Error loading markdown")
    => IF Level2Count(markdown_content) = 0
       THEN ret = "False" /\ chapters = <<>>
       ELSE /\ ret = "True"
            /\ chapters = [j \in 1..Level2Count(markdown_content) |->
                             Level2Chapter(markdown_content, j)]

---------------------------------------------------------------------------
(* Claims about generate_chapter_files (SpecEmit) *)

\* C1: every chapter file that is written parses as well-formed XML,
\* whichever of the three paths produced it.
C1_WrittenFilesParse == \A i \in DOMAIN files : Parses(files[i])

\* "chapter", whitespace, a roman numeral, compared without regard to case:
\* the end of the whitespace run, 0 when the title is not of that shape
ChapterRomanSplit(t) ==
    LET l == Lower(t)
        Fits(k) == /\ \A j \in (Len(sChapter) + 1)..k : l[j] \in Whitespace
                   /\ \A j \in (k + 1)..Len(l) : UpperChar(l[j]) \in RomanUpper
    IN IF /\ Len(l) >= Len(sChapter) + 2
          /\ SubSeq(l, 1, Len(sChapter)) = Lower(sChapter)
          /\ \E k \in (Len(sChapter) + 1)..(Len(l) - 1) : Fits(k)
       THEN CHOOSE k \in (Len(sChapter) + 1)..(Len(l) - 1) : Fits(k)
       ELSE 0

\* C5: a title that is, without regard to case, "chapter", whitespace and a
\* roman numeral is written as "Chapter " and the numeral in upper case, in
\* the file and in the TOC entry; any other non-empty title is left as it is.
C5_RomanTitleCanonical ==
    pc # "generate_chapter_files" =>
      \A i \in 1..Len(written) :
         LET raw == Strip(chapters[i].title)
             k == ChapterRomanSplit(raw)
             want == IF k # 0
                     THEN sChapter \o <<" ">> \o Upper(SubSeq(raw, k + 1, Len(raw)))
                     ELSE raw
         IN raw # <<>> => /\ files[i].title = want
                          /\ toc.entries[i].text = want

\* the text with every curly quote put back to the straight one and every em
\* dash to two hyphens
Decurl(toks) ==
    Flatten([k \in 1..Len(toks) |->
               CASE toks[k] \in {"U+201C", "U+201D"} -> <<"\"">>
                 [] toks[k] \in {"U+2018", "U+2019"} -> <<"'">>
                 [] toks[k] = "U+2014" -> <<"-", "-">>
                 [] OTHER -> <<toks[k]>>])

\* C9: in the serialized fragment, after heading removal, every straight
\* quote is replaced by a curly quote and every "--" by one em dash, and no
\* other character is changed.  (Stated on the files whose first assembly was
\* accepted: what they hold is the fragment after the substitution.)
C9_TypographicSubstitution ==
    \A i \in DOMAIN files :
       files[i].path = "ok" =>
         LET before == RemoveHeadings(Soupify(chapters[i].content))
             after == files[i].content
         IN /\ \A k \in 1..Len(after) : after[k] \notin {"\"", "'"}
            /\ \A k \in 1..(Len(after) - 1) : ~(after[k] = "-" /\ after[k + 1] = "-")
            /\ Decurl(after) = before

---------------------------------------------------------------------------
(* Claims about the project directory (SpecProj) *)

CountIn(seq, x) == Cardinality({k \in 1..Len(seq) : seq[k] = x})

ItemIds(manifest) == [k \in 1..Len(manifest) |-> manifest[k].id]

\* the ids of the chapter items, in manifest order
ChapterIds(ids) == SelectSeq(ids, LAMBDA x : x > 0)

C7_TocMatchesManifest ==
    pc = "run_se_commands" =>
      LET n == Len(chapters) IN
      /\ toc.entries = [i \in 1..n |-> [href |-> i, text |-> ResolveTitle(chapters[i].title, i)]]
      /\ Len(ChapterIds(ItemIds(opf.manifest))) = n
      /\ Len(ChapterIds(opf.spine)) = n
      /\ \A i \in 1..n : CountIn(ItemIds(opf.manifest), i) = 1 /\ CountIn(opf.spine, i) = 1

\* C8: with the project directory set, generate_chapter_files writes exactly
\* one file per chapter, file i for chapter i, for every i in 1..N; a chapter
\* that needs the fallback gets the error notice and the later chapters are
\* still written.
C8_OneFilePerChapter ==
    (pc \notin {"start", "generate_chapter_files"} /\ project_dir # "None") =>
      /\ written = [i \in 1..Len(chapters) |-> i]
      /\ \A i \in 1..Len(chapters) :
            /\ i \in DOMAIN files
            /\ files[i].id = i
            /\ files[i].title = ResolveTitle(chapters[i].title, i)
            /\ files[i].path \in {"ok", "repaired", "fallback"}
            /\ files[i].path = "fallback" => files[i].content = Fallback

\* Witness of C8: the first of two chapters needed the fallback and the
\* second file was written after it.
C8_Witness ==
    /\ pc = "update_content_opf"
    /\ Len(chapters) = 2
    /\ written = <<1, 2>>
    /\ files[1].path = "fallback"
    /\ files[2].path = "ok"

\* C13: every stage that convert calls ends by returning a boolean: no
\* exception leaves a stage, and a stage that met an unparsable or incomplete
\* navigation or package document returns failure with a diagnostic.
C13_StagesReturnBoolean ==
    /\ ret \in {"-", "True", "False"}
    /\ diag = "ERROR: Could not find TOC nav element" => ret = "False"

\* convert returned False at line 602: the scaffold failed and the path given
\* at the prompt is no directory
ScaffoldAborted == pc = "aborted" /\ diag = "Invalid directory path. Aborting."

\* run_se_commands started a subcommand and no exception ended it
RanSeCommands == invoked # <<>> /\ diag # "Error running Standard Ebooks command"

\* C14: prepare, build and lint are invoked in that order, each one whatever
\* the earlier ones exited with, and whatever their exit statuses convert
\* reaches its success summary; and when the scaffold fails and the path
\* given at the prompt is no directory, convert aborts having written no
\* chapter file, navigation document or package document and having invoked
\* none of prepare, build and lint.
C14_FailurePolicy ==
    /\ [](\A k \in 1..Len(invoked) : k <= Len(SeCommands) /\ invoked[k].cmd = SeCommands[k])
    /\ [](RanSeCommands =>
            /\ Len(invoked) = Len(SeCommands)
            /\ pc = "done"
            /\ ret = "True"
            /\ diag = "Conversion completed!")
    /\ [](ScaffoldAborted => written = <<>> /\ invoked = <<>>)
    /\ [][ScaffoldAborted' => UNCHANGED <<files, toc, opf>>]_vars

\* Witness of C14: prepare, build and lint all exited with a nonzero status
\* and convert printed its success summary.
C14_Witness ==
    /\ pc = "done"
    /\ diag = "Conversion completed!"
    /\ Len(invoked) = 3
    /\ \A k \in 1..3 : invoked[k].rc # 0

===========================================================================
